---- MODULE Spec2Model ----
(***************************************************************************)
(* capitan: an in-process publish/subscribe event bus.  One Capitan        *)
(* instance: the signal registry, the lazily created per-signal workers    *)
(* with their bounded queues, Emit's multi-way enqueue, listener fan-out   *)
(* with panic recovery, Listener.Close and Shutdown.                       *)
(*                                                                         *)
(* Every step below is one atomic region of the Go code: a critical        *)
(* section of c.mu, one channel operation, one select, one callback entry  *)
(* or return.  Goroutines interleave between steps.                        *)
(***************************************************************************)
EXTENDS Integers, Sequences, FiniteSets, TLC

VARIABLES
    registry,      \* c.registry: map Signal -> list of listener ids
    workers,       \* c.workers: map Signal -> worker id (pointer to a workerState)
    observers,     \* c.observers: list of observer ids
    bufferSize,    \* c.bufferSize
    panicHandler,  \* c.panicHandler # nil
    shutdown,      \* c.shutdown is closed
    wg,            \* c.wg counter
    listeners,     \* every Listener ever allocated: signal, callback kind, owner
    obs,           \* every Observer ever allocated
    wstate,        \* every workerState ever allocated, with its goroutine's position
    emits,         \* every Emit call: its arguments and its position
    callers,       \* every Shutdown call: its position
    reports,       \* history: the calls of the panic handler: signal, panicking listener, event
    enq,           \* history: the events in the order their channel send succeeded
    log,           \* history: per listener, the events its callback was entered with
    mu,            \* c.mu, the bus lock: its writer, its readers, the goroutines waiting to write
    omu,           \* o.mu of each observer: the goroutine that holds it
    threads        \* the goroutines seen at the level of the locks: what each has still to do

\* The bus as the operations see it, each critical section one step.
bus == <<registry, workers, observers, bufferSize, panicHandler, shutdown, wg,
         listeners, obs, wstate, emits, callers, reports, enq, log>>

\* The locks and the goroutines that take them, each lock operation one step.
locking == <<mu, omu, threads>>

vars == <<registry, workers, observers, bufferSize, panicHandler, shutdown, wg,
          listeners, obs, wstate, emits, callers, reports, enq, log, mu, omu, threads>>

(***************************************************************************)
(* Bounds of the model.                                                    *)
(***************************************************************************)
MaxBuf == 1
MaxHooks == 2
MaxEmits == 2
MaxObservers == 1
MaxShutdowns == 1
LockObservers == 2
LockThreads == 3

Signals == {"s1", "s2"}
\* What a callback does when invoked: return, panic, never return, or panic
\* with a value on which the panic handler panics in turn.
Kinds == {"ok", "panic", "block", "repanic"}

(***************************************************************************)
(* Go maps as functions with a varying domain.                             *)
(***************************************************************************)
MapPut(m, k, v) == [x \in (DOMAIN m) \cup {k} |-> IF x = k THEN v ELSE m[x]]

MapDel(m, k) == [x \in (DOMAIN m) \ {k} |-> m[x]]

EmptyMap == [x \in {} |-> 0]

\* c.registry[signal]: the zero value (nil slice) when the key is absent.
RegList(s) == IF s \in DOMAIN registry THEN registry[s] ELSE <<>>

Range(q) == {q[i] : i \in 1..Len(q)}

IndexOf(q, x) == CHOOSE i \in 1..Len(q) : q[i] = x /\ \A j \in 1..(i - 1) : q[j] # x

\* A removal that truncates the slice whether or not it found a match.
SwapRemoveAlways(q, x) ==
    IF q = <<>> THEN q
    ELSE LET n == Len(q)
             i == IF x \in Range(q) THEN IndexOf(q, x) ELSE n
         IN  [j \in 1..(n - 1) |-> IF j = i THEN q[n] ELSE q[j]]

\* unregister's removal: the first match is overwritten by the last element
\* and the slice is truncated by one.
SwapRemove(q, x) ==
    IF x \notin Range(q) THEN q
    ELSE LET i == IndexOf(q, x)
             n == Len(q)
         IN  [j \in 1..(n - 1) |-> IF j = i THEN q[n] ELSE q[j]]

Update(q, i, r) == [q EXCEPT ![i] = r]

(***************************************************************************)
(* The state after New(opts...).                                           *)
(***************************************************************************)
InitWith(bufs, handlers) ==
    /\ registry = EmptyMap
    /\ workers = EmptyMap
    /\ observers = <<>>
    /\ bufferSize \in bufs
    /\ panicHandler \in handlers
    /\ shutdown = FALSE
    /\ wg = 0
    /\ listeners = <<>>
    /\ obs = <<>>
    /\ wstate = <<>>
    /\ emits = <<>>
    /\ callers = <<>>
    /\ reports = <<>>
    /\ enq = <<>>
    /\ log = <<>>
    /\ mu = [w |-> 0, r |-> {}, ww |-> {}]
    /\ omu = [o \in 1..LockObservers |-> 0]
    /\ threads = <<>>

Init == InitWith(1..MaxBuf, {FALSE})

(***************************************************************************)
(* New(opts...): the options are applied to the new bus before it is used. *)
(***************************************************************************)
\* New line 198: the default buffer size.
DefaultBufferSize == 16

\* New has not returned yet: no operation of the bus has been called.
Fresh == listeners = <<>> /\ obs = <<>> /\ emits = <<>> /\ callers = <<>>

\* An option that stores whatever size it is given.
BufferSizeSet(size) == size

\* WithBufferSize lines 219-221: only a positive size is stored.
BufferSizeAfter(size) == IF size > 0 THEN size ELSE bufferSize

\* New lines 200-202 with the option WithBufferSize(size).
WithBufferSize(size) ==
    /\ Fresh
    /\ bufferSize' = BufferSizeAfter(size)
    /\ UNCHANGED <<registry, workers, observers, panicHandler, shutdown, wg,
                   listeners, obs, wstate, emits, callers, reports, enq, log>>
    /\ UNCHANGED locking

(***************************************************************************)
(* attachObservers(signal): every active observer whose whitelist admits   *)
(* the signal gets a new listener, appended to the registry entry and to   *)
(* the observer's own list, in the order of c.observers.  base is the      *)
(* number of listeners allocated before the call.                          *)
(***************************************************************************)
\* An attachObservers that ignores the whitelist.
AdmitsAll(o, s) == TRUE

\* obs.signals == nil (observe all) is the empty whitelist here.
Admits(o, s) == obs[o].signals = {} \/ s \in obs[o].signals

RECURSIVE AttachSeq(_, _)
AttachSeq(os, s) ==
    IF os = <<>> THEN <<>>
    ELSE LET o == Head(os)
             rest == AttachSeq(Tail(os), s)
         IN  IF obs[o].active /\ Admits(o, s) THEN <<o>> \o rest ELSE rest

\* An attachObservers that attaches nobody.
AttachingNone(s) == <<>>

\* The observers attachObservers(s) attaches, in order.
Attaching(s) == AttachSeq(observers, s)

AttachListeners(s) ==
    [i \in 1..Len(Attaching(s)) |-> [signal |-> s, kind |-> "ok", obs |-> Attaching(s)[i], again |-> "no"]]

AttachIds(s, base) == [i \in 1..Len(Attaching(s)) |-> base + i]

AttachObs(s, base) ==
    [o \in 1..Len(obs) |->
        IF o \in Range(Attaching(s))
        THEN [obs[o] EXCEPT !.listeners = Append(@, base + IndexOf(Attaching(s), o))]
        ELSE obs[o]]

\* The log grows with the listeners: one empty entry per new listener.
ExtendLog(n) == [i \in 1..n |-> IF i <= Len(log) THEN log[i] ELSE <<>>]

(***************************************************************************)
(* Hook(signal, callback)                                                  *)
(***************************************************************************)
Hook(s, k) ==
    LET l == Len(listeners) + 1
        isNew == s \notin DOMAIN registry
        own == [signal |-> s, kind |-> k, obs |-> 0, again |-> "no"]
    IN  /\ listeners' = IF isNew THEN Append(listeners, own) \o AttachListeners(s)
                                 ELSE Append(listeners, own)
        /\ registry' = MapPut(registry, s,
                          IF isNew THEN <<l>> \o AttachIds(s, l)
                                   ELSE Append(registry[s], l))
        /\ obs' = IF isNew THEN AttachObs(s, l) ELSE obs
        /\ log' = ExtendLog(Len(listeners'))
        /\ UNCHANGED <<workers, observers, bufferSize, panicHandler, shutdown, wg,
                       wstate, emits, callers, reports, enq>>
        /\ UNCHANGED locking

(***************************************************************************)
(* Listener.Close() = c.unregister(listener)                               *)
(***************************************************************************)
\* An unregister that closes the done channel and keeps the table entry.
StopWorkerKeep(s) ==
    IF s \in DOMAIN workers
    THEN /\ wstate' = Update(wstate, workers[s],
                         [wstate[workers[s]] EXCEPT !.done = TRUE, !.closes = @ + 1])
         /\ UNCHANGED workers
    ELSE UNCHANGED <<wstate, workers>>

\* The worker table and the done channels after the last listener of s left.
StopWorker(s) ==
    IF s \in DOMAIN workers
    THEN /\ wstate' = Update(wstate, workers[s],
                         [wstate[workers[s]] EXCEPT !.done = TRUE, !.closes = @ + 1])
         /\ workers' = MapDel(workers, s)
    ELSE UNCHANGED <<wstate, workers>>

Unregister(l) ==
    LET s == listeners[l].signal
        rest == SwapRemove(RegList(s), l)
    IN  IF Len(rest) = 0
        THEN /\ registry' = MapDel(registry, s)
             /\ StopWorker(s)
        ELSE /\ registry' = MapPut(registry, s, rest)
             /\ UNCHANGED <<wstate, workers>>

Close(l) ==
    /\ Unregister(l)
    /\ UNCHANGED <<observers, bufferSize, panicHandler, shutdown, wg, listeners, obs,
                   emits, callers, reports, enq, log>>
    /\ UNCHANGED locking

\* Close called again on a listener that is no longer registered.  The
\* record keeps what the call found: no listener on the signal ("empty"),
\* listeners hooked since ("hooked"), or these and their worker ("worker").
CloseAgain(l) ==
    LET s == listeners[l].signal
    IN  /\ l \notin Range(RegList(s))
        /\ listeners[l].again = "no"
        /\ Unregister(l)
        /\ listeners' = Update(listeners, l,
                [listeners[l] EXCEPT !.again = IF RegList(s) = <<>> THEN "empty"
                                               ELSE IF s \in DOMAIN workers THEN "worker"
                                               ELSE "hooked"])
        /\ UNCHANGED <<observers, bufferSize, panicHandler, shutdown, wg, obs,
                       emits, callers, reports, enq, log>>
        /\ UNCHANGED locking

(***************************************************************************)
(* Emit(ctx, signal, fields...)                                            *)
(***************************************************************************)
\* Lines 43-46: the workerState the slow path of Emit call e allocates: an
\* empty queue, and a done channel that is open.  The record also counts
\* the close(worker.done) calls (closes, a second one panics) and tells
\* whether the events channel is open, which no statement changes.
NewWorker(s, e) ==
    [sig |-> s, by |-> e, events |-> <<>>, done |-> FALSE, pc |-> "select",
     ev |-> 0, snap |-> <<>>, i |-> 0, drain |-> FALSE, closes |-> 0, open |-> TRUE]

\* A worker inside a callback that never returns (processEvent line 110),
\* its queue full.
Stuck(w) ==
    /\ wstate[w].pc = "running"
    /\ listeners[wstate[w].snap[wstate[w].i]].kind = "block"
    /\ Len(wstate[w].events) = bufferSize

\* Lines 11-16: the fast path reads the worker table under the read lock.
\* The record keeps the arguments and what held when Emit was called:
\* whether ctx was already canceled (pre) and the signals whose worker was
\* stuck (stuck).  The event itself is built later: map is its field map,
\* stale what the pooled object held before, puts the number of times the
\* event was handed to eventPool.Put.
EmitFast(s, c, flds) ==
    /\ emits' = Append(emits,
                  [sig |-> s, ctx |-> c, pre |-> (c = "canceled"),
                   stuck |-> {wstate[w].sig : w \in {x \in 1..Len(wstate) : Stuck(x)}},
                   pc |-> IF s \in DOMAIN workers THEN "capture" ELSE "slow",
                   w |-> 0, waited |-> FALSE, out |-> "none",
                   snap |-> <<>>, fate |-> "none",
                   fields |-> flds, map |-> EmptyMap, stale |-> EmptyMap, puts |-> 0])
    /\ UNCHANGED <<registry, workers, observers, bufferSize, panicHandler, shutdown, wg,
                   listeners, obs, wstate, callers, reports, enq, log>>
    /\ UNCHANGED locking

\* A slow path that does not look for listeners.
HasListenersAlways(s) == TRUE

\* Lines 24-40: whether the slow path finds listeners, after attaching the
\* observers when the signal has no registry entry yet.
HasListeners(s) ==
    \/ Len(RegList(s)) > 0
    \/ s \notin DOMAIN registry /\ Len(Attaching(s)) > 0

\* One worker goroutine for the whole bus instead of one per signal.
CreatesWorkerOnce(s) == Len(wstate) = 0 /\ HasListeners(s)

\* A slow path that does not look at the worker table again.
ExistsNever(s) == FALSE

\* Line 21: _, exists = c.workers[signal], read again under the write lock.
Exists(s) == s \in DOMAIN workers

\* Lines 22-47: the slow path creates a worker only when none is registered
\* and the signal has listeners.
CreatesWorker(s) == ~Exists(s) /\ HasListeners(s)

\* A slow path that starts the worker without counting it.
WgAddNone == wg

\* Line 48: c.wg.Add(1), before the go statement of line 49.
WgAdd == wg + 1

\* Lines 18-52: the slow path, one critical section of the write lock.
EmitSlow(e) ==
    LET s == emits[e].sig
        fresh == s \notin DOMAIN registry
        w == Len(wstate) + 1
    IN  /\ emits[e].pc = "slow"
        /\ IF Exists(s)
           THEN /\ emits' = Update(emits, e, [emits[e] EXCEPT !.pc = "capture"])
                /\ UNCHANGED <<registry, listeners, obs, log, workers, wstate, wg>>
           ELSE /\ IF Len(RegList(s)) = 0 /\ fresh
                   THEN /\ registry' = MapPut(registry, s, AttachIds(s, Len(listeners)))
                        /\ listeners' = listeners \o AttachListeners(s)
                        /\ obs' = AttachObs(s, Len(listeners))
                        /\ log' = ExtendLog(Len(listeners'))
                   ELSE UNCHANGED <<registry, listeners, obs, log>>
                /\ IF CreatesWorker(s)
                   THEN /\ wstate' = Append(wstate, NewWorker(s, e))
                        /\ workers' = MapPut(workers, s, w)
                        /\ wg' = WgAdd
                        /\ emits' = Update(emits, e, [emits[e] EXCEPT !.pc = "capture"])
                   ELSE /\ emits' = Update(emits, e,
                                      [emits[e] EXCEPT !.pc = "done", !.out = "nolisteners"])
                        /\ UNCHANGED <<workers, wstate, wg>>
        /\ UNCHANGED <<observers, bufferSize, panicHandler, shutdown, callers, reports, enq>>
        /\ UNCHANGED locking

\* A newEvent that leaves the fields of the object's previous use.
ClearNothing(m) == m

\* newEvent lines 206-208: every key of the reused map is deleted.
ClearFields(m) == EmptyMap

\* newEvent lines 211-213: the fields are stored in order under their
\* key's name; a field is a pair of a name and a value.
RECURSIVE AddFields(_, _)
AddFields(m, flds) ==
    IF flds = <<>> THEN m
    ELSE AddFields(MapPut(m, Head(flds)[1], Head(flds)[2]), Tail(flds))

\* newEvent lines 198-216, for an object whose map held stale.
newEvent(stale, flds) == AddFields(ClearFields(stale), flds)

\* eventPool.Get(), line 199: the field map of an object that was put in
\* the pool, or the empty map of a new one (eventPool.New, lines 148-153).
PoolGet == {EmptyMap} \cup {emits[f].map : f \in {x \in 1..Len(emits) : emits[x].puts > 0}}

\* Lines 56-67: the event is built, then the worker reference is read
\* again; without a worker the event goes back to the pool.
EmitCapture(e) ==
    LET s == emits[e].sig
    IN  /\ emits[e].pc = "capture"
        /\ \E stale \in PoolGet :
              emits' = Update(emits, e,
                         IF s \in DOMAIN workers
                         THEN [emits[e] EXCEPT !.pc = "select", !.w = workers[s],
                                               !.stale = stale,
                                               !.map = newEvent(stale, emits[e].fields)]
                         ELSE [emits[e] EXCEPT !.pc = "done", !.out = "noworker",
                                               !.stale = stale,
                                               !.map = newEvent(stale, emits[e].fields),
                                               !.puts = @ + 1])
        /\ UNCHANGED <<registry, workers, observers, bufferSize, panicHandler, shutdown, wg,
                       listeners, obs, wstate, callers, reports, enq, log>>
        /\ UNCHANGED locking

\* A select without the case <-ctx.Done().
CtxDoneNever(e) == FALSE

\* Lines 70-82: the cases of the select that can proceed.
CanSend(e) == Len(wstate[emits[e].w].events) < bufferSize
CtxDone(e) == emits[e].ctx = "canceled"
WorkerDone(e) == wstate[emits[e].w].done

\* A select without the case <-c.shutdown.
GlobalDoneNever(e) == FALSE

GlobalDone(e) == shutdown

\* A select with a default case: a full queue drops the event at once.
CanDropOrFull(e, why) ==
    \/ why = "ctx" /\ CtxDone(e)
    \/ why = "done" /\ (WorkerDone(e) \/ ~CanSend(e))
    \/ why = "shutdown" /\ GlobalDone(e)

\* The receive cases of the select, each by the outcome it leads to.
CanDrop(e, why) ==
    \/ why = "ctx" /\ CtxDone(e)
    \/ why = "done" /\ WorkerDone(e)
    \/ why = "shutdown" /\ GlobalDone(e)

AtSelect(e) == emits[e].pc \in {"select", "parked"}

\* No case can proceed: the goroutine blocks in the select.
EmitPark(e) ==
    /\ emits[e].pc = "select"
    /\ ~CanSend(e)
    /\ \A why \in {"ctx", "done", "shutdown"} : ~CanDrop(e, why)
    /\ emits' = Update(emits, e, [emits[e] EXCEPT !.pc = "parked", !.waited = TRUE])
    /\ UNCHANGED <<registry, workers, observers, bufferSize, panicHandler, shutdown, wg,
                   listeners, obs, wstate, callers, reports, enq, log>>
    /\ UNCHANGED locking

\* An Emit that hands its event to the pool after the send as well.
SendKeepsNever == FALSE

\* Lines 71-72: after the send the event belongs to the worker; Emit does
\* not put it in the pool.
SendKeeps == TRUE

\* case worker.events <- event
EmitSend(e) ==
    /\ AtSelect(e)
    /\ CanSend(e)
    /\ wstate' = Update(wstate, emits[e].w,
                   [wstate[emits[e].w] EXCEPT !.events = Append(@, e)])
    /\ enq' = Append(enq, e)
    /\ emits' = Update(emits, e, [emits[e] EXCEPT !.pc = "done", !.out = "sent",
                                                  !.puts = IF SendKeeps THEN @ ELSE @ + 1])
    /\ UNCHANGED <<registry, workers, observers, bufferSize, panicHandler, shutdown, wg,
                   listeners, obs, callers, reports, log>>
    /\ UNCHANGED locking

\* case <-ctx.Done(), case <-worker.done, case <-c.shutdown: the event is dropped.
EmitDrop(e, why) ==
    /\ AtSelect(e)
    /\ CanDrop(e, why)
    /\ emits' = Update(emits, e, [emits[e] EXCEPT !.pc = "done", !.out = why,
                                                  !.puts = @ + 1])
    /\ UNCHANGED <<registry, workers, observers, bufferSize, panicHandler, shutdown, wg,
                   listeners, obs, wstate, callers, reports, enq, log>>
    /\ UNCHANGED locking

\* The caller cancels the context it passed (or its deadline expires).
CancelCtx(e) ==
    /\ emits[e].ctx = "live"
    /\ emits' = Update(emits, e, [emits[e] EXCEPT !.ctx = "canceled"])
    /\ UNCHANGED <<registry, workers, observers, bufferSize, panicHandler, shutdown, wg,
                   listeners, obs, wstate, callers, reports, enq, log>>
    /\ UNCHANGED locking

(***************************************************************************)
(* The worker goroutine: processEvents, drainEvents, processEvent          *)
(***************************************************************************)
Worker(w, r) == Update(wstate, w, r)

\* Where processEvent returns to: the main loop or the drain loop.
Loop(w) == IF wstate[w].drain THEN "drain" ELSE "select"

\* processEvents line 143: case event := <-state.events
WorkerRecv(w) ==
    /\ wstate[w].pc = "select"
    /\ wstate[w].events # <<>>
    /\ wstate' = Worker(w, [wstate[w] EXCEPT !.pc = "check", !.ev = Head(wstate[w].events),
                                             !.events = Tail(@)])
    /\ UNCHANGED <<registry, workers, observers, bufferSize, panicHandler, shutdown, wg,
                   listeners, obs, emits, callers, reports, enq, log>>
    /\ UNCHANGED locking

\* processEvents lines 146-154: case <-state.done, case <-c.shutdown
WorkerStop(w) ==
    /\ wstate[w].pc = "select"
    /\ wstate[w].done \/ shutdown
    /\ wstate' = Worker(w, [wstate[w] EXCEPT !.pc = "drain", !.drain = TRUE])
    /\ UNCHANGED <<registry, workers, observers, bufferSize, panicHandler, shutdown, wg,
                   listeners, obs, emits, callers, reports, enq, log>>
    /\ UNCHANGED locking

\* A worker that defers the cleanup first and c.wg.Done() second, so that
\* Done runs before the cleanup.
DeferredReversed == <<"wgdone", "cleanup">>

\* processEvents lines 133-139: the deferred calls in the order they run
\* when the function returns, the last deferred first: the cleanup of the
\* worker table, then c.wg.Done().
Deferred == <<"cleanup", "wgdone">>

\* Where the goroutine is after the deferred call at: the other deferred
\* call, or the end.
AfterDeferred(at) == IF Deferred[1] = at THEN Deferred[2] ELSE "exited"

\* drainEvents: a non-blocking receive; the default case ends the drain.
WorkerDrain(w) ==
    /\ wstate[w].pc = "drain"
    /\ wstate' = Worker(w,
                   IF wstate[w].events # <<>>
                   THEN [wstate[w] EXCEPT !.pc = "check", !.ev = Head(wstate[w].events),
                                          !.events = Tail(@)]
                   ELSE [wstate[w] EXCEPT !.pc = Deferred[1]])
    /\ UNCHANGED <<registry, workers, observers, bufferSize, panicHandler, shutdown, wg,
                   listeners, obs, emits, callers, reports, enq, log>>
    /\ UNCHANGED locking

\* processEvent without its cancellation check.
CanceledNever(e) == FALSE

\* processEvent line 90: event.ctx.Err() != nil
Canceled(e) == emits[e].ctx = "canceled"

\* A cancellation check made in the main loop only, not in drainEvents.
SkipsInLoopOnly(w) == ~wstate[w].drain /\ Canceled(wstate[w].ev)

\* processEvent line 90, called from the main loop (line 144) and from
\* drainEvents (line 123) alike.
Skips(w) == Canceled(wstate[w].ev)

\* processEvent lines 90-94: a canceled event goes back to the pool.
WorkerCheck(w) ==
    /\ wstate[w].pc = "check"
    /\ IF Skips(w)
       THEN /\ wstate' = Worker(w, [wstate[w] EXCEPT !.pc = Loop(w), !.ev = 0])
            /\ emits' = Update(emits, wstate[w].ev,
                           [emits[wstate[w].ev] EXCEPT !.fate = "skipped", !.puts = @ + 1])
       ELSE /\ wstate' = Worker(w, [wstate[w] EXCEPT !.pc = "snapshot"])
            /\ UNCHANGED emits
    /\ UNCHANGED <<registry, workers, observers, bufferSize, panicHandler, shutdown, wg,
                   listeners, obs, callers, reports, enq, log>>
    /\ UNCHANGED locking

\* A fan-out to every listener ever allocated for the signal, removed or not.
SnapshotEver(s) ==
    LET RECURSIVE Pick(_)
        Pick(n) == IF n = 0 THEN <<>>
                   ELSE IF listeners[n].signal = s THEN Append(Pick(n - 1), n)
                   ELSE Pick(n - 1)
    IN  Pick(Len(listeners))

\* processEvent lines 98-99: the copy of c.registry[signal].
Snapshot(s) == RegList(s)

\* processEvent lines 97-100: the listener slice is copied under the read lock.
WorkerSnapshot(w) ==
    /\ wstate[w].pc = "snapshot"
    /\ wstate' = Worker(w, [wstate[w] EXCEPT !.pc = "invoke", !.i = 1,
                                             !.snap = Snapshot(wstate[w].sig)])
    /\ emits' = Update(emits, wstate[w].ev,
                   [emits[wstate[w].ev] EXCEPT !.snap = Snapshot(wstate[w].sig)])
    /\ UNCHANGED <<registry, workers, observers, bufferSize, panicHandler, shutdown, wg,
                   listeners, obs, callers, reports, enq, log>>
    /\ UNCHANGED locking

\* processEvent lines 103-110: the next listener's callback is entered; after
\* the last one the event goes back to the pool (line 115).
WorkerInvoke(w) ==
    /\ wstate[w].pc = "invoke"
    /\ IF wstate[w].i <= Len(wstate[w].snap)
       THEN /\ log' = [log EXCEPT ![wstate[w].snap[wstate[w].i]] = Append(@, wstate[w].ev)]
            /\ wstate' = Worker(w, [wstate[w] EXCEPT !.pc = "running"])
            /\ UNCHANGED emits
       ELSE /\ wstate' = Worker(w, [wstate[w] EXCEPT !.pc = Loop(w), !.ev = 0, !.i = 0,
                                                     !.snap = <<>>])
            /\ emits' = Update(emits, wstate[w].ev,
                           [emits[wstate[w].ev] EXCEPT !.fate = "handled", !.puts = @ + 1])
            /\ UNCHANGED log
    /\ UNCHANGED <<registry, workers, observers, bufferSize, panicHandler, shutdown, wg,
                   listeners, obs, callers, reports, enq>>
    /\ UNCHANGED locking

\* The listener whose callback worker w is running.
Current(w) == wstate[w].snap[wstate[w].i]

\* A deferred function that calls the handler without the nil test.
HandlesAlways == TRUE

\* processEvent line 106: r != nil && c.panicHandler != nil, for a recovered
\* panic; the value handed over is the one the callback panicked with.
Handles == panicHandler

\* A fan-out loop without the deferred recover().
RecoversNever == FALSE

\* processEvent lines 105-109: the deferred function calls recover().
Recovers == TRUE

\* A deferred function that recovers from the handler's panic as well.
HandlerPanicsNever(w) == FALSE

\* processEvent line 107: the handler is called inside the deferred
\* function, after recover() has returned; a panic of the handler is a new
\* panic that no recover() stops.
HandlerPanics(w) == Handles /\ listeners[Current(w)].kind = "repanic"

\* processEvent lines 104-111: the callback returns, or it panics, the
\* deferred recover() stops the panic and the panic handler, when one is set,
\* is called with the signal and the recovered value; a callback that blocks
\* never returns.  A panic that is not recovered ends the goroutine.
WorkerReturn(w) ==
    /\ wstate[w].pc = "running"
    /\ listeners[Current(w)].kind # "block"
    /\ IF listeners[Current(w)].kind \in {"panic", "repanic"}
       THEN IF Recovers
            THEN /\ wstate' = Worker(w, IF HandlerPanics(w)
                                        THEN [wstate[w] EXCEPT !.pc = "crashed"]
                                        ELSE [wstate[w] EXCEPT !.pc = "invoke", !.i = @ + 1])
                 /\ reports' = IF Handles
                               THEN Append(reports, <<wstate[w].sig, Current(w), wstate[w].ev>>)
                               ELSE reports
            ELSE /\ wstate' = Worker(w, [wstate[w] EXCEPT !.pc = "crashed"])
                 /\ UNCHANGED reports
       ELSE /\ wstate' = Worker(w, [wstate[w] EXCEPT !.pc = "invoke", !.i = @ + 1])
            /\ UNCHANGED reports
    /\ UNCHANGED <<registry, workers, observers, bufferSize, panicHandler, shutdown, wg,
                   listeners, obs, emits, callers, enq, log>>
    /\ UNCHANGED locking

\* processEvents lines 134-139: the deferred cleanup deletes the signal's
\* entry of the worker table.
WorkerCleanup(w) ==
    /\ wstate[w].pc = "cleanup"
    /\ workers' = MapDel(workers, wstate[w].sig)
    /\ wstate' = Worker(w, [wstate[w] EXCEPT !.pc = AfterDeferred("cleanup")])
    /\ UNCHANGED <<registry, observers, bufferSize, panicHandler, shutdown, wg,
                   listeners, obs, emits, callers, reports, enq, log>>
    /\ UNCHANGED locking

\* sync.WaitGroup: the Done that brings the counter to zero resets the
\* waiter count and releases every goroutine parked in Wait.
Release(n) ==
    LET RECURSIVE Wake(_)
        Wake(q) == IF q = <<>> THEN <<>>
                   ELSE <<IF Head(q).pc = "parked" THEN [Head(q) EXCEPT !.pc = "woken"]
                          ELSE Head(q)>> \o Wake(Tail(q))
    IN  IF n = 0 THEN Wake(callers) ELSE callers

\* processEvents line 133: defer c.wg.Done() runs last.
WorkerExit(w) ==
    /\ wstate[w].pc = "wgdone"
    /\ wg' = wg - 1
    /\ callers' = Release(wg - 1)
    /\ wstate' = Worker(w, [wstate[w] EXCEPT !.pc = AfterDeferred("wgdone")])
    /\ UNCHANGED <<registry, workers, observers, bufferSize, panicHandler, shutdown,
                   listeners, obs, emits, reports, enq, log>>
    /\ UNCHANGED locking

(***************************************************************************)
(* Shutdown()                                                              *)
(***************************************************************************)
\* A Shutdown that closes c.shutdown without the sync.Once.
OnceDoAlways == TRUE

\* Line 162: shutdownOnce.Do runs its function in the first call only;
\* c.shutdown is closed nowhere else, so it is open exactly until then.
OnceDo == ~shutdown

\* Lines 162-164: shutdownOnce closes c.shutdown; the call then waits.  The
\* close of a channel that is already closed panics.
ShutdownCall ==
    LET runs == OnceDo
    IN  /\ shutdown' = TRUE
        /\ callers' = Append(callers, [pc |-> IF runs /\ shutdown THEN "panicked" ELSE "wait",
                                       pre |-> Range(enq), closes |-> runs])
        /\ UNCHANGED <<registry, workers, observers, bufferSize, panicHandler, wg,
                       listeners, obs, wstate, emits, reports, enq, log>>
        /\ UNCHANGED locking

\* Line 165: c.wg.Wait() returns at once when the counter is zero, and
\* otherwise registers the goroutine as a waiter and parks it.
ShutdownWait(p) ==
    /\ callers[p].pc = "wait"
    /\ callers' = Update(callers, p,
                      [callers[p] EXCEPT !.pc = IF wg = 0 THEN "returned" ELSE "parked"])
    /\ UNCHANGED <<registry, workers, observers, bufferSize, panicHandler, shutdown, wg,
                   listeners, obs, wstate, emits, reports, enq, log>>
    /\ UNCHANGED locking

\* Line 165: a released waiter returns from c.wg.Wait(); sync.WaitGroup
\* panics ("WaitGroup is reused before previous Wait has returned") when an
\* Add has made the counter positive again before the waiter ran.
ShutdownReturn(p) ==
    /\ callers[p].pc = "woken"
    /\ callers' = Update(callers, p,
                      [callers[p] EXCEPT !.pc = IF wg = 0 THEN "returned" ELSE "panicked"])
    /\ UNCHANGED <<registry, workers, observers, bufferSize, panicHandler, shutdown, wg,
                   listeners, obs, wstate, emits, reports, enq, log>>
    /\ UNCHANGED locking

(***************************************************************************)
(* Stats()                                                                 *)
(***************************************************************************)
\* The snapshot Stats returns, one critical section of the read lock.
Stats ==
    [ActiveWorkers  |-> Cardinality(DOMAIN workers),
     QueueDepths    |-> [s \in DOMAIN workers |-> Len(wstate[workers[s]].events)],
     ListenerCounts |-> [s \in DOMAIN registry |-> Len(registry[s])]]

(***************************************************************************)
(* Observe(callback, signals...) and Observer.Close()                      *)
(***************************************************************************)
\* The orders in which a range over a Go map may visit the keys in S.
Orders(S) == {q \in [1..Cardinality(S) -> S] : Range(q) = S}

\* Observe lines 62-104, one critical section of the write lock: one new
\* listener per registry entry the whitelist wl admits (wl = {}: all), in
\* the order the map iteration visits them.
Observe(wl, order) ==
    LET o == Len(obs) + 1
        base == Len(listeners)
    IN  /\ Range(order) = {s \in DOMAIN registry : wl = {} \/ s \in wl}
        /\ listeners' = listeners \o
              [i \in 1..Len(order) |-> [signal |-> order[i], kind |-> "ok", obs |-> o, again |-> "no"]]
        /\ registry' = [s \in DOMAIN registry |->
                          IF s \in Range(order)
                          THEN Append(registry[s], base + IndexOf(order, s))
                          ELSE registry[s]]
        /\ obs' = Append(obs, [active |-> TRUE, signals |-> wl, pc |-> "open",
                               listeners |-> [i \in 1..Len(order) |-> base + i],
                               todo |-> <<>>, again |-> FALSE])
        /\ observers' = Append(observers, o)
        /\ log' = ExtendLog(Len(listeners'))
        /\ UNCHANGED <<workers, bufferSize, panicHandler, shutdown, wg, wstate, emits,
                       callers, reports, enq>>
        /\ UNCHANGED locking

\* Observer.Close lines 19-27, under o.mu: an active observer is marked
\* inactive and gives up its listener list.
ObserverClose(o) ==
    /\ obs[o].active
    /\ obs' = Update(obs, o, [obs[o] EXCEPT !.active = FALSE, !.pc = "detach",
                                            !.todo = obs[o].listeners,
                                            !.listeners = <<>>])
    /\ UNCHANGED <<registry, workers, observers, bufferSize, panicHandler, shutdown, wg,
                   listeners, wstate, emits, callers, reports, enq, log>>
    /\ UNCHANGED locking

\* Observer.Close lines 19-23: a call that finds the observer inactive
\* returns at once.  The record keeps that such a call has returned.
ObserverCloseAgain(o) ==
    /\ ~obs[o].active
    /\ ~obs[o].again
    /\ obs' = Update(obs, o, [obs[o] EXCEPT !.again = TRUE])
    /\ UNCHANGED <<registry, workers, observers, bufferSize, panicHandler, shutdown, wg,
                   listeners, wstate, emits, callers, reports, enq, log>>
    /\ UNCHANGED locking

\* Observer.Close lines 30-40, under c.mu: the observer leaves c.observers.
ObserverDetach(o) ==
    /\ obs[o].pc = "detach"
    /\ observers' = SwapRemove(observers, o)
    /\ obs' = Update(obs, o, [obs[o] EXCEPT !.pc = "closing"])
    /\ UNCHANGED <<registry, workers, bufferSize, panicHandler, shutdown, wg,
                   listeners, wstate, emits, callers, reports, enq, log>>
    /\ UNCHANGED locking

\* Observer.Close lines 43-45: the next listener of the list is closed; after
\* the last one Close returns.
ObserverCloseNext(o) ==
    /\ obs[o].pc = "closing"
    /\ IF obs[o].todo = <<>>
       THEN /\ obs' = Update(obs, o, [obs[o] EXCEPT !.pc = "closed"])
            /\ UNCHANGED <<registry, workers, wstate>>
       ELSE /\ Unregister(Head(obs[o].todo))
            /\ obs' = Update(obs, o, [obs[o] EXCEPT !.todo = Tail(@)])
    /\ UNCHANGED <<observers, bufferSize, panicHandler, shutdown, wg, listeners,
                   emits, callers, reports, enq, log>>
    /\ UNCHANGED locking

(***************************************************************************)
(* The locks.  Above, a critical section is one step.  Here each operation *)
(* is the sequence of lock operations its code performs, on c.mu (a        *)
(* sync.RWMutex) and on the o.mu of the observers (sync.Mutex), and each   *)
(* lock operation is one step; what a branch of the code depends on (a new *)
(* signal, an active observer, the number of listeners) is chosen freely.  *)
(***************************************************************************)
Lock == <<"Lock", 0>>
Unlock == <<"Unlock", 0>>
RLock == <<"RLock", 0>>
RUnlock == <<"RUnlock", 0>>
OLock(o) == <<"OLock", o>>
OUnlock(o) == <<"OUnlock", o>>
\* The worker enters a listener's callback, and the callback returns.
Enter == <<"Enter", 0>>
Exit == <<"Exit", 0>>

\* attachObservers (observer.go:108-130), called with c.mu held: each of
\* the k observers of c.observers is locked and unlocked in turn.
RECURSIVE AttachLocks(_)
AttachLocks(k) ==
    IF k = 0 THEN <<>> ELSE AttachLocks(k - 1) \o <<OLock(k), OUnlock(k)>>

\* Hook (service.go:253-273): the write lock, held over attachObservers
\* when the signal is new (k = 0: the signal exists, or no observer).
HookLocks(k) == <<Lock>> \o AttachLocks(k) \o <<Unlock>>

\* Observe (observer.go:62-104): the write lock, no observer lock.
ObserveLocks == <<Lock, Unlock>>

\* unregister (service.go:365-390).
UnregisterLocks == <<Lock, Unlock>>

\* Stats (service.go:394-413).
StatsLocks == <<RLock, RUnlock>>

\* Emit (part_007:10-83): the fast path; then the slow path, which returns
\* when the signal has no listener ("drop") and otherwise goes on to the
\* capture of the worker under the read lock.
EmitLocks(path, k) ==
    <<RLock, RUnlock>> \o
    (IF path = "fast" THEN <<>> ELSE <<Lock>> \o AttachLocks(k) \o <<Unlock>>) \o
    (IF path = "drop" THEN <<>> ELSE <<RLock, RUnlock>>)

RECURSIVE Times(_, _)
Times(n, q) == IF n = 0 THEN <<>> ELSE q \o Times(n - 1, q)

\* An Observer.Close that keeps o.mu until it has left c.observers.
ObserverCloseLocksHeld(o, active, n) ==
    IF active
    THEN <<OLock(o), Lock, Unlock, OUnlock(o)>> \o Times(n, UnregisterLocks)
    ELSE <<OLock(o), OUnlock(o)>>

\* Observer.Close (observer.go:17-46): o.mu is released (line 21 or 27)
\* before c.mu is taken (line 30); then Close of each of its n listeners.
ObserverCloseLocks(o, active, n) ==
    IF active
    THEN <<OLock(o), OUnlock(o), Lock, Unlock>> \o Times(n, UnregisterLocks)
    ELSE <<OLock(o), OUnlock(o)>>

\* What a listener callback may do: nothing with the bus, or call it.
CallbackLocks ==
    {<<>>, HookLocks(1), UnregisterLocks, StatsLocks, EmitLocks("fast", 0)}

\* processEvent (part_007:97-112): the snapshot under the read lock, then
\* the callback with no lock held; at the end of the goroutine the cleanup
\* of processEvents (part_007:134-139) under the write lock.
WorkerLocks(cb) == <<RLock, RUnlock, Enter>> \o cb \o <<Exit, Lock, Unlock>>

\* The operations a goroutine may be started with.
LockPrograms ==
    {[op |-> "Hook", prog |-> HookLocks(k), cb |-> FALSE] : k \in 0..LockObservers}
    \cup {[op |-> "Observe", prog |-> ObserveLocks, cb |-> FALSE]}
    \cup {[op |-> "Listener.Close", prog |-> UnregisterLocks, cb |-> FALSE]}
    \cup {[op |-> "Stats", prog |-> StatsLocks, cb |-> FALSE]}
    \cup {[op |-> "Emit", prog |-> EmitLocks(path, k), cb |-> FALSE] :
             path \in {"fast", "drop", "create"}, k \in 0..LockObservers}
    \cup {[op |-> "Observer.Close", prog |-> ObserverCloseLocks(o, active, n), cb |-> FALSE] :
             o \in 1..LockObservers, active \in BOOLEAN, n \in 0..1}
    \cup {[op |-> "processEvents", prog |-> WorkerLocks(cb), cb |-> FALSE] :
             cb \in CallbackLocks}

Ts == 1..Len(threads)

\* The lock operation goroutine t is at; none when it has finished.
At(t) == IF threads[t].prog = <<>> THEN <<"none", 0>> ELSE Head(threads[t].prog)

Advance(t) == [threads EXCEPT ![t].prog = Tail(@)]

HoldsMu(t) == mu.w = t \/ t \in mu.r

HoldsO(t) == \E o \in 1..LockObservers : omu[o] = t

\* go: a goroutine starts an operation.
Start(p) ==
    /\ Len(threads) < LockThreads
    /\ threads' = Append(threads, p)
    /\ UNCHANGED <<mu, omu>>
    /\ UNCHANGED bus

\* c.mu.Lock() is called: from now on the RWMutex admits no new reader.
MuLockCall(t) ==
    /\ At(t) = Lock
    /\ mu' = [mu EXCEPT !.ww = @ \cup {t}]
    /\ threads' = [threads EXCEPT ![t].prog = <<(<<"Locking", 0>>)>> \o Tail(@)]
    /\ UNCHANGED omu
    /\ UNCHANGED bus

\* c.mu.Lock() returns: no writer and no reader holds the lock.
MuLock(t) ==
    /\ At(t) = <<"Locking", 0>>
    /\ mu.w = 0 /\ mu.r = {}
    /\ mu' = [mu EXCEPT !.w = t, !.ww = @ \ {t}]
    /\ threads' = Advance(t)
    /\ UNCHANGED omu
    /\ UNCHANGED bus

MuUnlock(t) ==
    /\ At(t) = Unlock
    /\ mu.w = t
    /\ mu' = [mu EXCEPT !.w = 0]
    /\ threads' = Advance(t)
    /\ UNCHANGED omu
    /\ UNCHANGED bus

\* c.mu.RLock() returns: no writer holds the lock and none is waiting.
MuRLock(t) ==
    /\ At(t) = RLock
    /\ mu.w = 0 /\ mu.ww = {}
    /\ mu' = [mu EXCEPT !.r = @ \cup {t}]
    /\ threads' = Advance(t)
    /\ UNCHANGED omu
    /\ UNCHANGED bus

MuRUnlock(t) ==
    /\ At(t) = RUnlock
    /\ t \in mu.r
    /\ mu' = [mu EXCEPT !.r = @ \ {t}]
    /\ threads' = Advance(t)
    /\ UNCHANGED omu
    /\ UNCHANGED bus

\* o.mu.Lock() returns: the mutex is free (it is not reentrant).
ObsLock(t) ==
    /\ At(t)[1] = "OLock"
    /\ omu[At(t)[2]] = 0
    /\ omu' = [omu EXCEPT ![At(t)[2]] = t]
    /\ threads' = Advance(t)
    /\ UNCHANGED mu
    /\ UNCHANGED bus

ObsUnlock(t) ==
    /\ At(t)[1] = "OUnlock"
    /\ omu[At(t)[2]] = t
    /\ omu' = [omu EXCEPT ![At(t)[2]] = 0]
    /\ threads' = Advance(t)
    /\ UNCHANGED mu
    /\ UNCHANGED bus

\* processEvent line 110: the callback is entered, and it returns.
CallbackEnter(t) ==
    /\ At(t) = Enter
    /\ threads' = [threads EXCEPT ![t].prog = Tail(@), ![t].cb = TRUE]
    /\ UNCHANGED <<mu, omu>>
    /\ UNCHANGED bus

CallbackExit(t) ==
    /\ At(t) = Exit
    /\ threads' = [threads EXCEPT ![t].prog = Tail(@), ![t].cb = FALSE]
    /\ UNCHANGED <<mu, omu>>
    /\ UNCHANGED bus

\* Goroutine t can take its next step.
CanStep(t) ==
    \/ At(t) \in {Lock, Unlock, RUnlock, Enter, Exit}
    \/ At(t)[1] = "OUnlock"
    \/ At(t) = <<"Locking", 0>> /\ mu.w = 0 /\ mu.r = {}
    \/ At(t) = RLock /\ mu.w = 0 /\ mu.ww = {}
    \/ At(t)[1] = "OLock" /\ omu[At(t)[2]] = 0

(***************************************************************************)
(* The goroutines of a program using the bus, by kind of step.             *)
(***************************************************************************)
Ls == 1..Len(listeners)
Es == 1..Len(emits)
Ws == 1..Len(wstate)
Ps == 1..Len(callers)
Os == 1..Len(obs)

NumHooks == Cardinality({l \in Ls : listeners[l].obs = 0})

HooksOn(s) == Cardinality({l \in Ls : listeners[l].obs = 0 /\ listeners[l].signal = s})

\* An event some goroutine still holds or may still deliver.
Pending(e) ==
    \/ emits[e].pc # "done"
    \/ \E w \in Ws : e \in Range(wstate[w].events) \/ wstate[w].ev = e

\* Hook on the signals S with callbacks of the kinds K, and Listener.Close.
Subscribing(S, K, maxHooks) ==
    \/ \E s \in S, k \in K : NumHooks < maxHooks /\ Hook(s, k)
    \/ \E l \in Ls : listeners[l].obs = 0 /\ Close(l)

\* The Emit calls that have not returned.
InFlight == {e \in Es : emits[e].pc # "done"}

\* Emit on the signals S with contexts in the states C and the field lists
\* F, called by at most maxCalls goroutines at a time.
EmittingWith(S, C, F, maxEmits, maxCalls) ==
    \/ \E s \in S, c \in C, flds \in F :
          /\ Len(emits) < maxEmits
          /\ Cardinality(InFlight) < maxCalls
          /\ EmitFast(s, c, flds)
    \/ \E e \in Es : EmitSlow(e)
    \/ \E e \in Es : EmitCapture(e)
    \/ \E e \in Es : EmitPark(e)
    \/ \E e \in Es : EmitSend(e)
    \/ \E e \in Es, why \in {"done", "shutdown"} : EmitDrop(e, why)

\* Emit without fields.
Emitting(S, C, maxEmits, maxCalls) == EmittingWith(S, C, {<<>>}, maxEmits, maxCalls)

\* Contexts that are canceled, before or during the Emit call or later.
Canceling ==
    \/ \E e \in Es : EmitDrop(e, "ctx")
    \/ \E e \in Es : Pending(e) /\ CancelCtx(e)

Working ==
    \/ \E w \in Ws : WorkerRecv(w)
    \/ \E w \in Ws : WorkerStop(w)
    \/ \E w \in Ws : WorkerDrain(w)
    \/ \E w \in Ws : WorkerCheck(w)
    \/ \E w \in Ws : WorkerSnapshot(w)
    \/ \E w \in Ws : WorkerInvoke(w)
    \/ \E w \in Ws : WorkerReturn(w)
    \/ \E w \in Ws : WorkerCleanup(w)
    \/ \E w \in Ws : WorkerExit(w)

\* The steps of one Emit call and of one worker goroutine.
EmitStep(e) ==
    \/ EmitSlow(e)
    \/ EmitCapture(e)
    \/ EmitPark(e)
    \/ EmitSend(e)
    \/ \E why \in {"ctx", "done", "shutdown"} : EmitDrop(e, why)

WorkerStep(w) ==
    \/ WorkerRecv(w)
    \/ WorkerStop(w)
    \/ WorkerDrain(w)
    \/ WorkerCheck(w)
    \/ WorkerSnapshot(w)
    \/ WorkerInvoke(w)
    \/ WorkerReturn(w)
    \/ WorkerCleanup(w)
    \/ WorkerExit(w)

\* The Go scheduler: a goroutine that can take a step is eventually run.  No
\* fairness for the callers of Hook, Close, Emit, Shutdown and cancel, which
\* may never call.
FairEmits(n) == \A e \in 1..n : WF_vars(e \in Es /\ EmitStep(e))
FairWorkers(n) == \A w \in 1..n : WF_vars(w \in Ws /\ WorkerStep(w))
FairShutdowns(n) == \A p \in 1..n : WF_vars(p \in Ps /\ (ShutdownWait(p) \/ ShutdownReturn(p)))

ShuttingDown(maxShutdowns) ==
    \/ Len(callers) < maxShutdowns /\ ShutdownCall
    \/ \E p \in Ps : ShutdownWait(p)
    \/ \E p \in Ps : ShutdownReturn(p)

Observing(S, maxObservers) ==
    \/ \E wl \in SUBSET S : \E order \in Orders({s \in DOMAIN registry : wl = {} \/ s \in wl}) :
          Len(obs) < maxObservers /\ Observe(wl, order)
    \/ \E o \in Os : ObserverClose(o)
    \/ \E o \in Os : ObserverDetach(o)
    \/ \E o \in Os : ObserverCloseNext(o)

(***************************************************************************)
(* One signal, hooked listeners, cancelable contexts and Shutdown.         *)
(***************************************************************************)
Next ==
    \/ Subscribing({"s1"}, {"ok"}, MaxHooks)
    \/ Emitting({"s1"}, {"live", "canceled"}, MaxEmits, MaxEmits)
    \/ Canceling
    \/ Working
    \/ ShuttingDown(MaxShutdowns)

Spec == Init /\ [][Next]_vars

(***************************************************************************)
(* Two signals, hooked listeners and observers.                            *)
(***************************************************************************)
ObsHooks == 1
ObsEmits == 2

NextObs ==
    \/ Subscribing(Signals, {"ok"}, ObsHooks)
    \/ Emitting(Signals, {"live"}, ObsEmits, ObsEmits)
    \/ Working
    \/ Observing(Signals, MaxObservers)

SpecObs == Init /\ [][NextObs]_vars

(***************************************************************************)
(* One signal, listeners that return or panic, with and without a panic    *)
(* handler.                                                                *)
(***************************************************************************)
InitPanic == InitWith(1..MaxBuf, BOOLEAN)

NextPanic ==
    \/ Subscribing({"s1"}, {"ok", "panic"}, MaxHooks)
    \/ Emitting({"s1"}, {"live"}, MaxEmits, MaxEmits)
    \/ Working

SpecPanic == InitPanic /\ [][NextPanic]_vars

(***************************************************************************)
(* One signal, listeners that return, no cancellation and no Shutdown, the *)
(* goroutines scheduled fairly.                                            *)
(***************************************************************************)
NextLive ==
    \/ Subscribing({"s1"}, {"ok"}, MaxHooks)
    \/ Emitting({"s1"}, {"live"}, MaxEmits, MaxEmits)
    \/ Working

SpecLive ==
    Init /\ [][NextLive]_vars /\ FairEmits(MaxEmits) /\ FairWorkers(MaxEmits)

(***************************************************************************)
(* One signal, a listener that returns or never returns and stays          *)
(* registered, producers and Shutdown, the goroutines scheduled fairly.    *)
(***************************************************************************)
BlockedHooks == 1
BlockedEmits == 3
BlockedCalls == 1

NextBlocked ==
    \/ \E k \in {"ok", "block"} : NumHooks < BlockedHooks /\ Hook("s1", k)
    \/ Emitting({"s1"}, {"live"}, BlockedEmits, BlockedCalls)
    \/ Working
    \/ ShuttingDown(MaxShutdowns)

SpecBlocked ==
    /\ Init /\ [][NextBlocked]_vars
    /\ FairEmits(BlockedEmits) /\ FairWorkers(BlockedEmits) /\ FairShutdowns(MaxShutdowns)

(***************************************************************************)
(* One signal, a listener that returns or never returns and may be closed, *)
(* producers whose contexts are canceled or expire; the goroutines         *)
(* scheduled fairly.                                                       *)
(***************************************************************************)
NextTimeout ==
    \/ Subscribing({"s1"}, {"ok", "block"}, BlockedHooks)
    \/ Emitting({"s1"}, {"live"}, BlockedEmits, BlockedCalls)
    \/ Canceling
    \/ Working

SpecTimeout ==
    Init /\ [][NextTimeout]_vars /\ FairEmits(BlockedEmits) /\ FairWorkers(BlockedEmits)

(***************************************************************************)
(* Two signals: the listeners of s1 return or never return and may be      *)
(* closed, those of s2 return and stay registered.  The goroutines are     *)
(* scheduled fairly.                                                       *)
(***************************************************************************)
IsoHooks == 1
IsoEmits == 3
IsoCalls == 1

NextIso ==
    \/ \E k \in {"ok", "block"} : HooksOn("s1") < IsoHooks /\ Hook("s1", k)
    \/ HooksOn("s2") < IsoHooks /\ Hook("s2", "ok")
    \/ \E l \in Ls : listeners[l].signal = "s1" /\ Close(l)
    \/ Emitting(Signals, {"live"}, IsoEmits, IsoCalls)
    \/ Working

SpecIso ==
    Init /\ [][NextIso]_vars /\ FairEmits(IsoEmits) /\ FairWorkers(IsoEmits)

(***************************************************************************)
(* One signal, hooked listeners and observers of all signals, Close called *)
(* on a listener and on an observer more than once, by one or several      *)
(* goroutines.                                                             *)
(***************************************************************************)
CloseCalls == 1

NextClose ==
    \/ Subscribing({"s1"}, {"ok"}, MaxHooks)
    \/ \E l \in Ls : listeners[l].obs = 0 /\ CloseAgain(l)
    \/ Emitting({"s1"}, {"live"}, MaxEmits, CloseCalls)
    \/ Working
    \/ Observing({}, MaxObservers)
    \/ \E o \in Os : ObserverCloseAgain(o)

SpecClose == Init /\ [][NextClose]_vars

(***************************************************************************)
(* One signal, listeners hooked and closed, one goroutine that calls Emit  *)
(* again and again; no Shutdown.                                           *)
(***************************************************************************)
SeqEmits == 3

NextSeq ==
    \/ Subscribing({"s1"}, {"ok"}, MaxHooks)
    \/ Emitting({"s1"}, {"live"}, SeqEmits, CloseCalls)
    \/ Working

SpecSeq == Init /\ [][NextSeq]_vars

(***************************************************************************)
(* One signal, listeners hooked and closed, one goroutine that calls Emit  *)
(* and several goroutines that call Shutdown, all of them scheduled.       *)
(***************************************************************************)
ManyShutdowns == 2
ShutdownHooks == 1
ShutdownEmits == 2

NextShutdown ==
    \/ Subscribing({"s1"}, {"ok"}, ShutdownHooks)
    \/ Emitting({"s1"}, {"live"}, ShutdownEmits, CloseCalls)
    \/ Working
    \/ ShuttingDown(ManyShutdowns)

SpecShutdown ==
    /\ Init
    /\ [][NextShutdown]_vars
    /\ FairEmits(ShutdownEmits)
    /\ FairWorkers(ShutdownEmits)
    /\ FairShutdowns(ManyShutdowns)

(***************************************************************************)
(* A bus built with the default buffer size or with WithBufferSize, one    *)
(* signal, one goroutine that calls Emit faster than the worker delivers.  *)
(***************************************************************************)
OptSizes == {-1, 0, 17}
BufHooks == 1
BufEmits == 17

InitNew == InitWith({DefaultBufferSize}, {FALSE})

NextBuf ==
    \/ \E size \in OptSizes : WithBufferSize(size)
    \/ Subscribing({"s1"}, {"ok"}, BufHooks)
    \/ Emitting({"s1"}, {"live"}, BufEmits, CloseCalls)
    \/ Working

SpecBuf == InitNew /\ [][NextBuf]_vars

(***************************************************************************)
(* One signal with a small queue, a listener whose callback returns and    *)
(* later ones whose callback never does, each closed at any time, one      *)
(* goroutine that calls Emit.                                              *)
(***************************************************************************)
FullHooks == 2
FullEmits == 4

NextFull ==
    \/ NumHooks = 0 /\ Hook("s1", "ok")
    \/ NumHooks \in 1..(FullHooks - 1) /\ Hook("s1", "block")
    \/ \E l \in Ls : Close(l)
    \/ Emitting({"s1"}, {"live"}, FullEmits, CloseCalls)
    \/ Working

SpecFull ==
    /\ Init
    /\ [][NextFull]_vars
    /\ FairEmits(FullEmits)
    /\ FairWorkers(FullEmits)

(***************************************************************************)
(* One signal, one goroutine that calls Emit with fields: none, one, two   *)
(* of the same name, two of different names; the events are pooled and     *)
(* reused.                                                                 *)
(***************************************************************************)
PoolHooks == 1
PoolEmits == 3

PoolFields ==
    {<<>>,
     <<(<<"a", 1>>)>>,
     <<(<<"b", 1>>), (<<"b", 2>>)>>,
     <<(<<"a", 2>>), (<<"b", 1>>)>>}

NextPool ==
    \/ Subscribing({"s1"}, {"ok"}, PoolHooks)
    \/ EmittingWith({"s1"}, {"live"}, PoolFields, PoolEmits, CloseCalls)
    \/ Working

SpecPool == Init /\ [][NextPool]_vars

(***************************************************************************)
(* One signal, hooked listeners and observers of all signals, Close called *)
(* on them at any time and more than once, Emit and Shutdown.              *)
(***************************************************************************)
NextChan ==
    \/ Subscribing({"s1"}, {"ok"}, ShutdownHooks)
    \/ \E l \in Ls : listeners[l].obs = 0 /\ CloseAgain(l)
    \/ Emitting({"s1"}, {"live"}, MaxEmits, CloseCalls)
    \/ Working
    \/ Observing({}, MaxObservers)
    \/ ShuttingDown(MaxShutdowns)

SpecChan == Init /\ [][NextChan]_vars

(***************************************************************************)
(* One signal, listeners that return or panic with a value the panic       *)
(* handler cannot handle, with and without a panic handler; the goroutines *)
(* scheduled fairly.                                                       *)
(***************************************************************************)
NextHandler ==
    \/ Subscribing({"s1"}, {"ok", "repanic"}, MaxHooks)
    \/ Emitting({"s1"}, {"live"}, MaxEmits, MaxEmits)
    \/ Working

SpecHandler ==
    InitPanic /\ [][NextHandler]_vars /\ FairEmits(MaxEmits) /\ FairWorkers(MaxEmits)

(***************************************************************************)
(* One signal, listeners hooked and closed, one goroutine that calls Emit  *)
(* again and again, and Shutdown.                                          *)
(***************************************************************************)
NextDown ==
    \/ Subscribing({"s1"}, {"ok"}, MaxHooks)
    \/ Emitting({"s1"}, {"live"}, MaxEmits, CloseCalls)
    \/ Working
    \/ ShuttingDown(MaxShutdowns)

SpecDown == Init /\ [][NextDown]_vars

(***************************************************************************)
(* The locks: a few goroutines, each running one operation of the bus as   *)
(* its sequence of lock operations.                                        *)
(***************************************************************************)
NextLocks ==
    \/ \E p \in LockPrograms : Start(p)
    \/ \E t \in Ts : MuLockCall(t)
    \/ \E t \in Ts : MuLock(t)
    \/ \E t \in Ts : MuUnlock(t)
    \/ \E t \in Ts : MuRLock(t)
    \/ \E t \in Ts : MuRUnlock(t)
    \/ \E t \in Ts : ObsLock(t)
    \/ \E t \in Ts : ObsUnlock(t)
    \/ \E t \in Ts : CallbackEnter(t)
    \/ \E t \in Ts : CallbackExit(t)

SpecLocks == Init /\ [][NextLocks]_vars

(***************************************************************************)
(* Vocabulary of the properties.                                           *)
(***************************************************************************)
Count(q, x) == Cardinality({i \in 1..Len(q) : q[i] = x})

\* The event's channel send succeeded.
Enqueued(e) == e \in Range(enq)

EnqPos(e) == IndexOf(enq, e)

\* Listener l's callback was entered with event e.
DeliveredTo(e, l) == e \in Range(log[l])

\* A worker took the event off its queue and finished with it.
Processed(e) == emits[e].fate # "none"

Registered(l) == l \in Range(RegList(listeners[l].signal))

\* A Close call on observer o has returned: the one that found it active,
\* or a later one.
CloseReturned(o) == obs[o].pc = "closed" \/ obs[o].again

\* Listener l has been closed and the next Emit call will be the e-th.
ClosedBefore(l, e) == Len(emits) = e - 1 /\ l \in Ls /\ ~Registered(l)

\* Listener l is registered and the next Emit call will be the e-th.
RegisteredBefore(l, e) == Len(emits) = e - 1 /\ l \in Ls /\ Registered(l)

(***************************************************************************)
(* C1. Per-signal FIFO: whenever one listener has been invoked for two     *)
(* events of its signal, it was invoked for them in the order in which     *)
(* they were enqueued.                                                     *)
(***************************************************************************)
PerSignalFIFO ==
    \A l \in Ls : \A i, j \in 1..Len(log[l]) :
        i < j => EnqPos(log[l][i]) < EnqPos(log[l][j])

(***************************************************************************)
(* C2. Shutdown drains: when a Shutdown call has returned, every event     *)
(* that was enqueued before the call, whose context is not canceled and    *)
(* whose signal has registered listeners, has been taken off its queue and *)
(* fanned out.                                                             *)
(***************************************************************************)
ShutdownDrains ==
    \A p \in Ps : callers[p].pc = "returned" =>
        \A e \in callers[p].pre :
            ~Canceled(e) /\ RegList(emits[e].sig) # <<>> => Processed(e)

(***************************************************************************)
(* C3. An event is dropped only for a listed reason: when listener l is    *)
(* registered just before the e-th Emit call is made, then once the call   *)
(* is made, eventually l's callback is invoked with its event, or the      *)
(* context is canceled, or Shutdown is called, or l is no longer           *)
(* registered.                                                             *)
(***************************************************************************)
DroppedOnlyForListedReasons ==
    \A e \in 1..MaxEmits : \A l \in 1..MaxHooks :
        [](RegisteredBefore(l, e) =>
             [](e \in Es => <>(/\ e \in Es /\ l \in Ls
                               /\ \/ DeliveredTo(e, l)
                                  \/ Canceled(e)
                                  \/ shutdown
                                  \/ ~Registered(l))))

(***************************************************************************)
(* C4. Listener isolation: no worker goroutine dies of a callback's panic, *)
(* and once an event has been fanned out every listener of its snapshot    *)
(* has been invoked with it exactly once, whatever the others did.         *)
(***************************************************************************)
ListenerIsolation ==
    /\ \A w \in Ws : wstate[w].pc # "crashed"
    /\ \A e \in Es : emits[e].fate = "handled" =>
          \A l \in Range(emits[e].snap) : Count(log[l], e) = 1

\* A listener that panics stood before one that returns in the snapshot of
\* an event; the worker fanned it out and then a later event as well.
ListenerIsolationWitness ==
    \E e1, e2 \in Es : \E l1, l2 \in Ls :
        /\ listeners[l1].kind = "panic" /\ listeners[l2].kind = "ok"
        /\ emits[e1].snap = <<l1, l2>>
        /\ emits[e1].fate = "handled" /\ emits[e2].fate = "handled"
        /\ emits[e1].w = emits[e2].w
        /\ Enqueued(e1) /\ Enqueued(e2) /\ EnqPos(e1) < EnqPos(e2)
        /\ l1 \in Range(emits[e2].snap) /\ DeliveredTo(e2, l2)

(***************************************************************************)
(* C5. Lazy worker creation: a signal without a registered listener has no *)
(* entry in the worker table, and an Emit call that found no listener,     *)
(* after attaching the observers, has created no worker and has put its    *)
(* event in no queue.                                                      *)
(***************************************************************************)
LazyWorkerCreation ==
    /\ \A s \in Signals : Len(RegList(s)) = 0 => s \notin DOMAIN workers
    /\ \A e \in Es : emits[e].out = "nolisteners" =>
          /\ ~Enqueued(e)
          /\ \A w \in Ws : wstate[w].by # e /\ e \notin Range(wstate[w].events)

\* An Emit call returned for want of listeners on a signal that an active
\* observer's whitelist does not admit, and no worker exists for the signal.
LazyWorkerWitness ==
    \E e \in Es :
        /\ emits[e].out = "nolisteners"
        /\ \E o \in Os : obs[o].active /\ o \in Range(observers) /\ ~Admits(o, emits[e].sig)
        /\ emits[e].sig \notin DOMAIN workers

(***************************************************************************)
(* C6. Backpressure: an Emit call that reached the select returns, while   *)
(* its context is not canceled, its worker's done channel is open and      *)
(* Shutdown has not been called, only with its event placed in the queue.  *)
(***************************************************************************)
Backpressure ==
    \A e \in Es :
        /\ emits[e].pc = "done"
        /\ emits[e].w # 0
        /\ ~CtxDone(e) /\ ~wstate[emits[e].w].done /\ ~shutdown
        => emits[e].out = "sent" /\ Enqueued(e)

\* An Emit call found the queue full, blocked, and returned with its event
\* enqueued, no cancellation, close or shutdown having happened.
BackpressureWitness ==
    \E e \in Es :
        /\ emits[e].waited
        /\ emits[e].out = "sent"
        /\ ~CtxDone(e) /\ ~wstate[emits[e].w].done /\ ~shutdown

(***************************************************************************)
(* C7. An Emit call blocked on a full queue returns once Shutdown has been *)
(* called, also when the listener never returns and no space appears.      *)
(***************************************************************************)
BlockedEmitReturns ==
    \A e \in 1..BlockedEmits :
        (e \in Es /\ emits[e].pc = "parked" /\ shutdown) ~> (e \in Es /\ emits[e].pc = "done")

\* An Emit call blocked on a full queue has returned by the shutdown case
\* while its worker is still inside the callback with the queue still full.
BlockedEmitWitness ==
    \E e \in Es :
        /\ emits[e].waited
        /\ emits[e].pc = "done" /\ emits[e].out = "shutdown"
        /\ Stuck(emits[e].w)

(***************************************************************************)
(* C8. Cross-signal isolation: when a listener of s2 is registered just     *)
(* before the e-th Emit call is made and that call is to s2, its event is  *)
(* eventually delivered to that listener, whatever happens on s1: a        *)
(* callback that never returns, a full queue.                              *)
(***************************************************************************)
CrossSignalIsolation ==
    \A e \in 1..IsoEmits : \A l \in 1..(2 * IsoHooks) :
        [](RegisteredBefore(l, e) /\ listeners[l].signal = "s2" =>
             [](e \in Es /\ emits[e].sig = "s2" => <>(l \in Ls /\ DeliveredTo(e, l))))

\* An event was emitted to s2 when the worker of s1 was already stuck in a
\* callback with its queue full, and the listener of s2 has received it; the
\* worker of s1 is still stuck.
CrossSignalWitness ==
    \E e \in Es : \E l \in Ls :
        /\ emits[e].sig = "s2" /\ "s1" \in emits[e].stuck
        /\ DeliveredTo(e, l)
        /\ \E w \in Ws : wstate[w].sig = "s1" /\ Stuck(w)

(***************************************************************************)
(* C9. An event emitted with a context that was already canceled when      *)
(* Emit was called is never delivered to any listener.                     *)
(***************************************************************************)
PreCanceledNeverDelivered ==
    \A e \in Es : emits[e].pre => \A l \in Ls : ~DeliveredTo(e, l)

\* Such an event was placed in a queue with free space and the worker has
\* taken it off again, with a listener registered.
PreCanceledWitness ==
    \E e \in Es :
        /\ emits[e].pre
        /\ Enqueued(e)
        /\ emits[e].fate = "skipped"
        /\ RegList(emits[e].sig) # <<>>

(***************************************************************************)
(* C10. An event whose context was already canceled when Emit was called   *)
(* is dropped by Emit: it is never placed in a worker's queue.             *)
(***************************************************************************)
PreCanceledNeverQueued ==
    \A e \in Es : emits[e].pre => ~Enqueued(e)

(***************************************************************************)
(* C11. An Emit call blocked on a full queue whose context is canceled (or *)
(* whose deadline expires) returns, and from then on its event is          *)
(* delivered to no listener.                                               *)
(***************************************************************************)
BlockedEmitCanceled ==
    \A e \in 1..BlockedEmits :
        /\ [](e \in Es /\ emits[e].pc = "parked" /\ emits[e].ctx = "canceled"
                => <>(e \in Es /\ emits[e].pc = "done"))
        /\ [](e \in Es /\ emits[e].pc = "parked" /\ emits[e].ctx = "canceled"
                => [](\A l \in Ls : ~DeliveredTo(e, l)))

\* An Emit call blocked on a full queue has returned by the context case,
\* without Shutdown, while its worker is still inside the callback with the
\* queue still full.
BlockedEmitCanceledWitness ==
    \E e \in Es :
        /\ emits[e].waited
        /\ emits[e].pc = "done" /\ emits[e].out = "ctx"
        /\ ~shutdown
        /\ Stuck(emits[e].w)

WhitelistFiltering ==
    \A o \in Os : obs[o].signals # {} =>
        \A l \in Ls : listeners[l].obs = o =>
            /\ \A s \in DOMAIN registry : l \in Range(registry[s]) => s \in obs[o].signals
            /\ \A i \in 1..Len(log[l]) : emits[log[l][i]].sig \in obs[o].signals

\* An observer with whitelist {s1} received an event of s1, a signal created
\* after it, while an event of s2, which was hooked before the observer was
\* created, was fanned out without it.
WhitelistWitness ==
    \E o \in Os : \E l, h \in Ls : \E e, f \in Es :
        /\ obs[o].signals = {"s1"}
        /\ listeners[l].obs = o /\ emits[e].sig = "s1" /\ DeliveredTo(e, l)
        /\ listeners[h].obs = 0 /\ listeners[h].signal = "s2" /\ h < l
        /\ emits[f].sig = "s2" /\ emits[f].fate = "handled" /\ DeliveredTo(f, h)

(***************************************************************************)
(* C14. Once a Close call on an observer has returned, the observer is not *)
(* in the observer list and none of its listeners is in the registry (so   *)
(* no signal created afterwards has attached one).                         *)
(***************************************************************************)
ObserverClosed ==
    \A o \in Os : CloseReturned(o) =>
        /\ o \notin Range(observers)
        /\ \A l \in Ls : listeners[l].obs = o => ~Registered(l)

(***************************************************************************)
(* C15. Close idempotence: no Close ever finds the done channel of the     *)
(* worker it is about to close already closed (the one way Close could     *)
(* panic), and a Close call on a listener or an observer that was closed   *)
(* before leaves every registry entry, the observer list, the worker table *)
(* and every worker as they were, also when the signal was hooked again.   *)
(***************************************************************************)
CloseIdempotent ==
    /\ [](\A s \in DOMAIN workers : ~wstate[workers[s]].done)
    /\ [][\A l \in Ls : CloseAgain(l) =>
              /\ \A s \in Signals :
                    (IF s \in DOMAIN registry' THEN registry'[s] ELSE <<>>) = RegList(s)
              /\ observers' = observers /\ workers' = workers /\ wstate' = wstate]_vars
    /\ [][\A o \in Os : ObserverCloseAgain(o) =>
              /\ registry' = registry /\ observers' = observers
              /\ workers' = workers /\ wstate' = wstate]_vars

\* Close was called again on a listener when its signal had been hooked
\* again and had a worker, and again on an observer; the later listener is
\* still registered and its worker still in the table, not closed.
CloseIdempotentWitness ==
    \E l, k \in Ls : \E o \in Os :
        /\ listeners[l].again = "worker"
        /\ l < k /\ listeners[k].signal = listeners[l].signal /\ Registered(k)
        /\ listeners[l].signal \in DOMAIN workers
        /\ ~wstate[workers[listeners[l].signal]].done
        /\ obs[o].again

(***************************************************************************)
(* C16. When Close has returned for listener l before the e-th Emit call   *)
(* is made, the event of that call is never delivered to l.                *)
(***************************************************************************)
NoDeliveryAfterClose ==
    \A e \in 1..SeqEmits : \A l \in 1..MaxHooks :
        [](ClosedBefore(l, e) => [](e \in Es /\ l \in Ls => ~DeliveredTo(e, l)))

\* The first listener received an event; a later Emit call found no worker
\* in the table and created one, so (Emit calls being made one after the
\* other) the first listener, the last of its signal then, had been closed
\* before that call; its event went to the listener hooked since and not to
\* the closed one.
NoDeliveryAfterCloseWitness ==
    \E e, f \in Es : \E k \in Ls :
        /\ e < f /\ 1 < k
        /\ DeliveredTo(e, 1) /\ ~Registered(1)
        /\ emits[f].w # 0 /\ emits[f].w # emits[e].w /\ wstate[emits[f].w].by = f
        /\ emits[f].fate = "handled" /\ DeliveredTo(f, k) /\ ~DeliveredTo(f, 1)

InDispatch(l, w) ==
    \E j \in 1..Len(wstate[w].snap) :
        /\ wstate[w].snap[j] = l
        /\ \/ wstate[w].pc = "invoke" /\ j >= wstate[w].i
           \/ wstate[w].pc = "running" /\ j > wstate[w].i

\* Listener l has been closed and no dispatch that began before holds it.
Quiet(l) == l \in Ls /\ ~Registered(l) /\ \A w \in Ws : ~InDispatch(l, w)

ShutdownIdempotent ==
    /\ [](\A p, q \in Ps : callers[p].closes /\ callers[q].closes => p = q)
    /\ [](shutdown <=> \E p \in Ps : callers[p].closes)
    /\ [](\A p \in Ps : callers[p].pc # "panicked")
    /\ \A p \in 1..ManyShutdowns : [](p \in Ps => <>(p \in Ps /\ callers[p].pc = "returned"))

\* Worker w has been started and the next Shutdown call will be the p-th.
StartedBefore(w, p) == Len(callers) = p - 1 /\ w \in Ws

(***************************************************************************)
(* C19. When a Shutdown() call returns, every worker goroutine that was    *)
(* started before the call has finished draining and exited, also a worker *)
(* that a Listener.Close had removed from the worker table.                *)
(***************************************************************************)
ShutdownWaitsForWorkers ==
    \A p \in 1..ManyShutdowns : \A w \in 1..ShutdownEmits :
        [](StartedBefore(w, p) =>
             [](p \in Ps /\ w \in Ws /\ callers[p].pc = "returned" => wstate[w].pc = "exited"))

\* A Shutdown call has returned; a worker that had an event in its queue
\* before the call, and whose signal lost its last listener, has exited.
ShutdownWaitsWitness ==
    \E p \in Ps : \E e \in callers[p].pre :
        /\ callers[p].pc = "returned"
        /\ wstate[emits[e].w].done
        /\ wstate[emits[e].w].pc = "exited"

(***************************************************************************)
(* C20. After Shutdown() has returned no more workers are created: an Emit *)
(* to a signal that still has registered listeners allocates no queue and  *)
(* starts no worker goroutine.                                             *)
(***************************************************************************)
NoWorkersAfterShutdown ==
    [][(\E p \in Ps : callers[p].pc = "returned") => Len(wstate') = Len(wstate)]_vars

\* A Shutdown call has returned and the next Emit call will be the e-th.
ShutdownBefore(e) == Len(emits) = e - 1 /\ \E p \in Ps : callers[p].pc = "returned"

(***************************************************************************)
(* C21. An Emit call made after Shutdown() has returned finds the global   *)
(* shutdown signal closed and drops its event: the event is not enqueued   *)
(* and is never delivered to any listener.                                 *)
(***************************************************************************)
EmitAfterShutdownDrops ==
    \A e \in 1..ShutdownEmits :
        [](ShutdownBefore(e) =>
             [](e \in Es => ~Enqueued(e) /\ \A l \in Ls : ~DeliveredTo(e, l)))

(***************************************************************************)
(* C22. Delivery for one signal is serialized: at no time are two listener *)
(* callbacks for events of the same signal executing concurrently.         *)
(***************************************************************************)
SerializedDelivery ==
    \A v, w \in Ws :
        /\ wstate[v].pc = "running"
        /\ wstate[w].pc = "running"
        /\ wstate[v].sig = wstate[w].sig
        => v = w

\* Listener l's callback was entered with event e and has ended.
Ended(e, l) ==
    /\ DeliveredTo(e, l)
    /\ \A w \in Ws : ~(wstate[w].pc = "running" /\ wstate[w].ev = e /\ Current(w) = l)

(***************************************************************************)
(* C23. When a listener callback panics and a panic handler is configured, *)
(* the handler is called exactly once for that invocation, with the        *)
(* event's signal and the recovered value; a callback that returns causes  *)
(* no call, and without a handler nothing is called.                       *)
(***************************************************************************)
PanicHandlerOnce ==
    /\ \A e \in Es : \A l \in Ls :
          Count(reports, <<emits[e].sig, l, e>>) =
              IF panicHandler /\ listeners[l].kind = "panic" /\ Ended(e, l) THEN 1 ELSE 0
    /\ \A i \in 1..Len(reports) :
          /\ reports[i][3] \in Es /\ reports[i][2] \in Ls
          /\ reports[i][1] = emits[reports[i][3]].sig

\* With a handler: a panicking and a returning listener were both invoked
\* for one event and the handler was called for the first.
PanicHandlerWitness ==
    \E e \in Es : \E l1, l2 \in Ls :
        /\ panicHandler
        /\ listeners[l1].kind = "panic" /\ listeners[l2].kind = "ok"
        /\ emits[e].fate = "handled"
        /\ DeliveredTo(e, l1) /\ DeliveredTo(e, l2)
        /\ reports = <<(<<emits[e].sig, l1, e>>)>>

\* The worker goroutines that have been started and have not exited.
Running == {w \in Ws : wstate[w].pc # "exited"}

(***************************************************************************)
(* C24. Stats().ActiveWorkers equals the number of worker goroutines that  *)
(* are running (started and not yet exited) when the snapshot is taken.    *)
(***************************************************************************)
ActiveWorkersExact == Stats.ActiveWorkers = Cardinality(Running)

(***************************************************************************)
(* C25. The number of events queued for a signal never exceeds the         *)
(* configured buffer size, which is 16 unless a positive size was given    *)
(* with WithBufferSize; a non-positive size leaves the size unchanged.     *)
(***************************************************************************)
BufferSizeBound ==
    /\ bufferSize = DefaultBufferSize
    /\ [](\A w \in Ws : Len(wstate[w].events) <= bufferSize)
    /\ [](bufferSize \in {DefaultBufferSize} \cup {size \in OptSizes : size > 0})
    /\ [][\A size \in OptSizes :
            WithBufferSize(size) => IF size > 0 THEN bufferSize' = size
                                    ELSE bufferSize' = bufferSize]_vars
    /\ [][bufferSize' # bufferSize => \E size \in OptSizes : WithBufferSize(size)]_vars

\* WithBufferSize(-1) or none: the queue of a worker holds 16 events.
BufferSizeWitness ==
    \E w \in Ws : bufferSize = DefaultBufferSize /\ Len(wstate[w].events) = DefaultBufferSize

(***************************************************************************)
(* C26. When a worker exits it deletes only itself from the worker table:  *)
(* the entry of a newer worker registered for the same signal stays.       *)
(***************************************************************************)
WorkerDeletesOnlyItself ==
    [][\A w \in Ws :
          wstate[w].pc = "cleanup" /\ wstate'[w].pc = "wgdone" =>
              \A s \in DOMAIN workers :
                  workers[s] # w => s \in DOMAIN workers' /\ workers'[s] = workers[s]]_vars

\* Emit call e has built its event (newEvent, part_007:56).
Constructed(e) ==
    \/ emits[e].pc \in {"select", "parked"}
    \/ emits[e].out \in {"noworker", "sent", "ctx", "done", "shutdown"}

\* The event is back in the pool: put there by Emit on a drop, or by the
\* worker after the fan-out or the skip.
Pooled(e) ==
    \/ emits[e].out \in {"noworker", "ctx", "done", "shutdown"}
    \/ emits[e].fate \in {"handled", "skipped"}

(***************************************************************************)
(* C27. No event is leaked: every event constructed by Emit is eventually  *)
(* returned to the pool, by Emit on a drop or by the worker after          *)
(* processing or skipping it; none stays forever in the queue of a worker  *)
(* that has exited.                                                        *)
(***************************************************************************)
NoEventLeak ==
    \A e \in 1..MaxEmits :
        [](e \in Es /\ Constructed(e) => <>(e \in Es /\ Pooled(e)))

\* The step is a Close (first or repeated) of the registered listener l.
Closes(l) == Registered(l) /\ ~Registered(l)'

(***************************************************************************)
(* C28. When Listener.Close removes the last listener of a signal, the     *)
(* same critical section deletes the signal's registry entry and, if a     *)
(* worker is registered for the signal, closes its done signal and removes *)
(* it from the worker table; when other listeners remain, the worker and   *)
(* its done signal are left untouched.                                     *)
(***************************************************************************)
CloseLastListener ==
    [][\A l \in Ls :
          Closes(l) =>
              LET s == listeners[l].signal
              IN  IF Range(RegList(s)) = {l}
                  THEN /\ s \notin DOMAIN registry'
                       /\ s \notin DOMAIN workers'
                       /\ s \in DOMAIN workers => wstate'[workers[s]].done
                       /\ \A w \in Ws : \/ (s \in DOMAIN workers /\ w = workers[s])
                                          \/ wstate'[w].done = wstate[w].done
                  ELSE /\ Range(registry'[s]) = Range(RegList(s)) \ {l}
                       /\ workers' = workers
                       /\ \A w \in Ws : wstate'[w].done = wstate[w].done]_vars

\* Both cases have happened on a signal with a worker: a listener was
\* closed while another remained, then the last one was closed.
CloseLastWitness ==
    \E l1, l2 \in Ls : \E w \in Ws :
        /\ l1 # l2
        /\ listeners[l1].signal = listeners[l2].signal
        /\ wstate[w].sig = listeners[l1].signal
        /\ ~Registered(l1) /\ ~Registered(l2)
        /\ wstate[w].done
        /\ log[l1] # <<>> /\ log[l2] # <<>>

(***************************************************************************)
(* C29. An Emit to a signal whose queue is full does not block once the    *)
(* signal's last listener has been closed: a call that is waiting for      *)
(* space, or that reaches its select afterwards, returns.                  *)
(***************************************************************************)
EmitUnblockedByClose ==
    \A e \in 1..FullEmits :
        [](e \in Es /\ AtSelect(e) /\ RegList(emits[e].sig) = <<>>
             => <>(e \in Es /\ emits[e].pc = "done"))

(***************************************************************************)
(* C30. When the worker has dequeued an event whose context is canceled at *)
(* that moment, it invokes no listener for it and returns it to the pool,  *)
(* in the main loop and while draining alike; a skipped event is never     *)
(* delivered.                                                              *)
(***************************************************************************)
CanceledAtDequeueSkipped ==
    /\ [][\A w \in Ws :
            wstate[w].pc = "check" /\ Canceled(wstate[w].ev) /\ wstate'[w].pc # "check"
                => /\ emits'[wstate[w].ev].fate = "skipped"
                   /\ wstate'[w].pc = Loop(w)
                   /\ log' = log]_vars
    /\ [](\A e \in Es : emits[e].fate = "skipped" => \A l \in Ls : ~DeliveredTo(e, l))

\* A worker that has skipped a canceled event has dequeued another
\* canceled one while draining.
CanceledAtDequeueWitness ==
    \E w \in Ws : \E e \in Es :
        /\ wstate[w].pc = "check" /\ wstate[w].drain
        /\ Canceled(wstate[w].ev)
        /\ e # wstate[w].ev
        /\ emits[e].w = w /\ emits[e].fate = "skipped"

(***************************************************************************)
(* C31. Snapshot fan-out: a dequeued event whose context is not canceled   *)
(* gets a snapshot, which is the signal's registry entry at that moment;   *)
(* the worker invokes each listener of the snapshot exactly once with the  *)
(* event (and with it the context given to Emit) and no other listener: a  *)
(* listener hooked after the snapshot is not invoked for that event.       *)
(***************************************************************************)
SnapshotFanOut ==
    /\ [][\A w \in Ws :
            /\ wstate[w].pc = "check" /\ ~Canceled(wstate[w].ev) /\ wstate'[w].pc # "check"
                  => wstate'[w].pc = "snapshot"
            /\ wstate[w].pc = "snapshot" /\ wstate'[w].pc # "snapshot"
                  => /\ wstate'[w].snap = RegList(wstate[w].sig)
                     /\ emits'[wstate[w].ev].snap = RegList(wstate[w].sig)]_vars
    /\ [](\A e \in Es : \A l \in Ls :
            /\ DeliveredTo(e, l) => l \in Range(emits[e].snap) /\ Count(log[l], e) = 1
            /\ emits[e].fate = "handled" /\ l \in Range(emits[e].snap) => DeliveredTo(e, l))

\* Two events were fanned out; the second listener is registered and was
\* in the snapshot of the later event only, so it was hooked after the
\* snapshot of the earlier one, which went to the first listener alone.
SnapshotFanOutWitness ==
    \E e, f \in Es :
        /\ emits[e].fate = "handled" /\ emits[f].fate = "handled"
        /\ emits[e].snap = <<1>> /\ emits[f].snap = <<1, 2>>
        /\ log[1] = <<e, f>> /\ log[2] = <<f>>
        /\ Registered(2)

\* The listeners of observer o in the registry entry of signal s.
ObserverListeners(o, s) ==
    {i \in 1..Len(RegList(s)) : listeners[RegList(s)[i]].obs = o}

\* The invocations of observer o's callback with event e.
ObserverCalls(o, e) ==
    {c \in Ls \X Es :
        /\ listeners[c[1]].obs = o
        /\ c[2] <= Len(log[c[1]])
        /\ log[c[1]][c[2]] = e}

(***************************************************************************)
(* C32. For each active observer and each signal with a registry entry     *)
(* that its whitelist admits, the registry entry holds exactly one         *)
(* listener of that observer, so the observer's callback is invoked at     *)
(* most once with an event, and exactly once with an event that was fanned *)
(* out to one of its listeners; the step that creates an observer attaches *)
(* it to every existing admitted signal and puts it in the observer list.  *)
(***************************************************************************)
ObserverOncePerSignal ==
    /\ [](\A o \in Os : obs[o].active =>
            \A s \in DOMAIN registry :
                Admits(o, s) => Cardinality(ObserverListeners(o, s)) = 1)
    /\ [](\A o \in Os : \A e \in Es :
            /\ Cardinality(ObserverCalls(o, e)) <= 1
            /\ /\ emits[e].fate = "handled"
               /\ \E l \in Range(emits[e].snap) : listeners[l].obs = o
               => Cardinality(ObserverCalls(o, e)) = 1)
    /\ [][Len(obs') > Len(obs) =>
            /\ Len(obs') \in Range(observers')
            /\ obs'[Len(obs')].active
            /\ \A s \in DOMAIN registry :
                  obs'[Len(obs')].signals = {} \/ s \in obs'[Len(obs')].signals =>
                      \E l \in Range(registry'[s]) :
                          /\ listeners'[l].obs = Len(obs')
                          /\ l \in Range(obs'[Len(obs')].listeners)]_vars

\* An observer of all signals is active; it was attached to one signal by
\* Observe and to the other, created later, by Hook or Emit, and has
\* received one event of each.
ObserverOnceWitness ==
    \E o \in Os : \E l1, l2 \in Ls : \E e1, e2 \in Es :
        /\ obs[o].active /\ obs[o].signals = {}
        /\ listeners[l1].obs = o /\ listeners[l2].obs = o
        /\ listeners[l1].signal = "s1" /\ listeners[l2].signal = "s2"
        /\ \E h \in Ls : h < l1 /\ listeners[h].obs = 0 /\ listeners[h].signal = "s1"
        /\ \A h \in Ls : listeners[h].signal = "s2" => h >= l2
        /\ l1 < l2
        /\ Registered(l1) /\ Registered(l2)
        /\ log[l1] = <<e1>> /\ log[l2] = <<e2>>
        /\ emits[e1].fate = "handled" /\ emits[e2].fate = "handled"

(***************************************************************************)
(* C33. Concurrent Emit calls to a signal that has listeners and no worker *)
(* create one worker: a step starts at most one worker, and none for a     *)
(* signal that has a worker in the worker table; so while no listener has  *)
(* been closed and Shutdown has not been called, a signal never has more   *)
(* than one worker, however many Emit calls were in their slow path.       *)
(***************************************************************************)
OneWorkerPerSignal ==
    /\ [][Len(wstate') > Len(wstate) =>
            /\ Len(wstate') = Len(wstate) + 1
            /\ wstate'[Len(wstate')].sig \notin DOMAIN workers
            /\ workers'[wstate'[Len(wstate')].sig] = Len(wstate')]_vars
    /\ []((\A l \in Ls : Registered(l)) /\ ~shutdown =>
            \A v, w \in Ws : wstate[v].sig = wstate[w].sig => v = w)

\* Two Emit calls found no worker in their fast path; the second created
\* the worker, the first then found it under the write lock, and both have
\* put their event in its queue.  No listener was closed, no Shutdown.
OneWorkerWitness ==
    /\ Len(wstate) = 1 /\ Len(emits) = 2
    /\ wstate[1].by = 2
    /\ emits[1].w = 1 /\ emits[2].w = 1
    /\ emits[1].out = "sent" /\ emits[2].out = "sent"
    /\ \A l \in Ls : Registered(l)
    /\ ~shutdown

\* The names of the fields in the list flds.
Names(flds) == {flds[i][1] : i \in 1..Len(flds)}

\* The value of the last field of the list flds that has the name k.
LastValue(flds, k) ==
    flds[CHOOSE i \in 1..Len(flds) :
            flds[i][1] = k /\ \A j \in (i + 1)..Len(flds) : flds[j][1] # k][2]

(***************************************************************************)
(* C34. The event an Emit call builds carries exactly the fields passed to *)
(* that call, keyed by name, a later field of a name replacing an earlier  *)
(* one; no field of the pooled object's previous use remains.              *)
(***************************************************************************)
EventFieldsExact ==
    \A e \in Es : Constructed(e) =>
        /\ DOMAIN emits[e].map = Names(emits[e].fields)
        /\ \A k \in Names(emits[e].fields) :
              emits[e].map[k] = LastValue(emits[e].fields, k)

\* An event was built on a pooled object that still held a field "a" and
\* was given two fields named "b": it holds the second of them and no "a".
EventFieldsWitness ==
    \E e \in Es :
        /\ Constructed(e)
        /\ "a" \in DOMAIN emits[e].stale
        /\ emits[e].fields = <<(<<"b", 1>>), (<<"b", 2>>)>>
        /\ DOMAIN emits[e].map = {"b"} /\ emits[e].map["b"] = 2

(***************************************************************************)
(* C35. Whenever the signal of a started worker has no registered listener *)
(* and no Emit call is in progress, the worker eventually exits, without   *)
(* Shutdown: callbacks return and the goroutines are scheduled fairly.     *)
(***************************************************************************)
WorkersExitAfterClose ==
    \A w \in 1..MaxEmits :
        [](w \in Ws /\ RegList(wstate[w].sig) = <<>> /\ InFlight = {}
             => <>(w \in Ws /\ wstate[w].pc = "exited"))

\* Some goroutine still uses the event of Emit call e: the call itself, a
\* queue, or a worker that is checking it or fanning it out.
InUse(e) ==
    \/ emits[e].pc # "done"
    \/ \E w \in Ws : e \in Range(wstate[w].events) \/ wstate[w].ev = e

(***************************************************************************)
(* C38. An event is handed to eventPool.Put at most once, and not while    *)
(* its Emit call still holds it, while it is in a queue, or while a worker *)
(* is fanning it out (a callback running on it); so eventPool.Get, which   *)
(* hands out only what was put, gives no new Emit an event still in use.   *)
(***************************************************************************)
PooledOnce ==
    \A e \in Es :
        /\ emits[e].puts <= 1
        /\ emits[e].puts > 0 => ~InUse(e)
        /\ emits[e].puts > 0 <=> Pooled(e)

\* One event was put back by the worker after its fan-out, a later one by
\* Emit, which had waited for space and dropped it.
PooledOnceWitness ==
    \E e, f \in Es : \E l \in Ls :
        /\ e < f
        /\ emits[e].fate = "handled" /\ DeliveredTo(e, l) /\ emits[e].puts = 1
        /\ emits[f].waited /\ emits[f].out \in {"ctx", "shutdown"} /\ emits[f].puts = 1

(***************************************************************************)
(* C37. No channel misuse: close(worker.done) is called at most once for a *)
(* worker (a second call would panic), a worker's events channel is never  *)
(* closed, and every send of Emit is to an open channel, whatever the      *)
(* interleaving of Listener.Close, Observer.Close, Emit and Shutdown.      *)
(***************************************************************************)
NoChannelMisuse ==
    /\ [](\A w \in Ws :
            /\ wstate[w].closes <= 1
            /\ wstate[w].done <=> wstate[w].closes = 1
            /\ wstate[w].open)
    /\ [][\A e \in Es :
            emits[e].out # "sent" /\ emits'[e].out = "sent" => wstate[emits[e].w].open]_vars

\* The done channel of a worker that received an event was closed once; a
\* hooked listener and an observer that had both received events were
\* closed, Close was called again on the hooked listener when the registry
\* entry was gone, and Shutdown has been called.
NoChannelMisuseWitness ==
    \E w \in Ws : \E l \in Ls : \E o \in Os : \E e \in Es :
        /\ wstate[w].closes = 1
        /\ listeners[l].again = "empty"
        /\ obs[o].pc = "closed" /\ obs[o].todo = <<>> /\ log[l] # <<>>
        /\ \E k \in Ls : listeners[k].obs = o /\ log[k] # <<>>
        /\ emits[e].out = "sent" /\ emits[e].w = w
        /\ shutdown

(***************************************************************************)
(* C39. A panic of the panic handler is contained like a listener's panic: *)
(* no worker goroutine dies of it, and an event whose fan-out reached a    *)
(* listener for which the handler panicked is still fanned out to the end  *)
(* (so the remaining listeners and the later events are processed).        *)
(***************************************************************************)
HandlerPanicContained ==
    /\ [](\A w \in Ws : wstate[w].pc # "crashed")
    /\ \A e \in 1..MaxEmits :
          [](/\ e \in Es
             /\ \E i \in 1..Len(reports) :
                   reports[i][3] = e /\ listeners[reports[i][2]].kind = "repanic"
             => <>(e \in Es /\ emits[e].fate = "handled"))

\* n Emit calls have been made and have returned, and the next Shutdown
\* call will be the p-th.
IdleBefore(p, n) == Len(callers) = p - 1 /\ Len(emits) = n /\ InFlight = {}

(***************************************************************************)
(* C40. A worker signals completion to the shutdown barrier only after it  *)
(* has deleted its entry of the worker table; so when a Shutdown call has  *)
(* returned, every Emit call having returned before it was made and none   *)
(* having been made since, the worker table is empty.                      *)
(***************************************************************************)
TableEmptyAfterShutdown ==
    /\ [][wg' < wg =>
            \E w \in Ws :
                /\ wstate[w].pc = "wgdone" /\ wstate'[w].pc = "exited"
                /\ \A s \in DOMAIN workers : workers[s] # w]_vars
    /\ \A p \in 1..MaxShutdowns : \A n \in 0..MaxEmits :
          [](IdleBefore(p, n) =>
               [](p \in Ps /\ callers[p].pc = "returned" /\ Len(emits) = n
                    => workers = EmptyMap))

\* Shutdown has returned after two workers of one signal exited, the
\* second stopped by the shutdown itself; both Emit calls had put their
\* event in a queue before Shutdown was called, and the table is empty.
TableEmptyWitness ==
    \E p \in Ps :
        /\ callers[p].pc = "returned"
        /\ Len(wstate) = 2 /\ Len(emits) = 2
        /\ callers[p].pre = {1, 2}
        /\ wstate[1].pc = "exited" /\ wstate[2].pc = "exited"
        /\ ~wstate[2].done
        /\ workers = EmptyMap

\* C36: no interleaving of Hook, Observe, Emit, Listener.Close,
\* Observer.Close, Stats and worker steps deadlocks on c.mu and the o.mu:
\* while a goroutine has lock operations left, some goroutine can take its
\* next one; no goroutine asks for c.mu (Lock or RLock) while it holds an
\* o.mu; and the worker holds neither lock when it enters a callback.
NoLockDeadlock ==
    /\ (\E t \in Ts : threads[t].prog # <<>>) => \E t \in Ts : CanStep(t)
    /\ \A t \in Ts : At(t) \in {Lock, <<"Locking", 0>>, RLock} => ~HoldsO(t)
    /\ \A t \in Ts : At(t) = Enter => ~HoldsMu(t) /\ ~HoldsO(t)

\* An Observer.Close that has released o.mu waits for c.mu, which is held
\* by a goroutine inside attachObservers with an o.mu, while a worker is
\* inside a callback.
NoLockDeadlockWitness ==
    \E t \in Ts, u \in Ts, w \in Ts :
        /\ threads[t].op = "Observer.Close"
        /\ At(t) = <<"Locking", 0>>
        /\ mu.w = u
        /\ HoldsO(u)
        /\ threads[w].cb
====
